---- MODULE Spec2Model ----
(***************************************************************************)
(* Model of src/app.py, the SBB 2025 dashboard: a Streamlit script that is *)
(* re-executed top to bottom on every user interaction (a "render pass").  *)
(* Process-wide state is the two memo caches (st.cache_resource for the    *)
(* downloaded file path, st.cache_data for the list of lines); session     *)
(* state is the value of the two sidebar widgets; everything else is       *)
(* recomputed by each pass.                                                *)
(***************************************************************************)
EXTENDS Integers, Sequences, FiniteSets, TLC

\* ---------------------------------------------------------------- bounds
MaxRows == 2      \* free rows of the hosted table, drawn from RowDomain
MaxPad  == 10     \* length of the optional block of long-delay rows

\* ----------------------------------------------------- calendar (polars)
Date(y, m, d) == [year |-> y, month |-> m, day |-> d]

\* A polars Date is the number of days since 1970-01-01.
DaysFromCivil(dt) ==
    LET y   == IF dt.month <= 2 THEN dt.year - 1 ELSE dt.year
        era == y \div 400
        yoe == y - era * 400
        mp  == (dt.month + 9) % 12
        doy == (153 * mp + 2) \div 5 + dt.day - 1
        doe == yoe * 365 + yoe \div 4 - yoe \div 100 + doy
    IN  era * 146097 + doe - 719468

\* Expr.dt.weekday(): ISO weekday, Monday = 1 ... Sunday = 7.
Weekday(dt) == ((DaysFromCivil(dt) + 3) % 7) + 1

\* Expr.dt.month()
Month(dt) == dt.month

\* Expr.dt.hour() of a time of day kept in minutes since midnight.
Hour(minutes) == minutes \div 60

\* ------------------------------------------------------- configuration
CONSTRUCTION_DAYS ==
    { Date(2025, 9, 14), Date(2025, 11, 23),
      Date(2025, 9, 13), Date(2025, 1, 19),
      Date(2025, 2, 9),  Date(2025, 1, 26),
      Date(2025, 2, 2),  Date(2025, 1, 25),
      Date(2025, 1, 18), Date(2025, 2, 8),
      Date(2025, 2, 1),  Date(2025, 6, 28) }

FailureThreshold == 10     \* DELAY_MIN >= 10
WorstThreshold   == 30     \* DELAY_MIN > 30
WorstLimit       == 10     \* .head(10)
FirstWeekendDay  == 6      \* dt.weekday() < 6

LocalPath  == "~/.cache/huggingface/sbb_master_data.parquet"
None       == "None"
CacheEmpty == "<no entry>"

\* ------------------------------------------------ the hosted parquet file
JourneyRecord(dt, line, trip, stop, arrival, delay, cancelled) ==
    [ BETRIEBSTAG       |-> dt,
      LINIEN_TEXT       |-> line,
      FAHRT_BEZEICHNER  |-> trip,
      HALTESTELLEN_NAME |-> stop,
      ANKUNFTSZEIT      |-> arrival,
      DELAY_MIN         |-> delay,
      IS_CANCELLED      |-> cancelled ]

\* Representative journey records: both sides of each threshold, every kind
\* of operating day (weekday, blacklisted weekend, plain Saturday, plain
\* Sunday), three lines.
RowDomain ==
    { JourneyRecord(Date(2025, 1, 2),  "IC 1",  1, "Bern",     495,  15, FALSE),
      JourneyRecord(Date(2025, 1, 2),  "IC 1",  2, "Olten",    520,   2, FALSE),
      JourneyRecord(Date(2025, 1, 18), "IC 1",  3, "Zuerich",  1025, 10, FALSE),
      JourneyRecord(Date(2025, 1, 4),  "IC 5",  4, "Biel",     1050,  9, FALSE),
      JourneyRecord(Date(2025, 1, 17), "IC 5",  5, "Lausanne", 1439, 31, FALSE),
      JourneyRecord(Date(2025, 1, 17), "IR 15", 6, "Luzern",   0,    30, TRUE),
      JourneyRecord(Date(2025, 1, 5),  "IR 15", 7, "Bern",     495,  -1, TRUE),
      JourneyRecord(Date(2025, 3, 3),  "IC 5",  8, "Olten",    1025, 45, FALSE),
      JourneyRecord(Date(2025, 1, 17), "IC 1",  9, "Chur",     720,   0, FALSE),
      JourneyRecord(Date(2025, 1, 5),  "IR 15", 10, "Biel",    1050, -2, FALSE) }

\* A block of n long-delay weekday records of line IC 1 (delays 31, 32, ...).
PadBlock(n) ==
    [ i \in 1..n |->
        JourneyRecord(Date(2025, 3, 3), "IC 1", 100 + i, "Basel",
                      (495 + 37 * i) % 1440, WorstThreshold + i, FALSE) ]

RECURSIVE SeqsUpTo(_, _)
SeqsUpTo(S, n) ==
    IF n = 0 THEN { <<>> }
    ELSE LET shorter == SeqsUpTo(S, n - 1)
         IN  shorter \cup { Append(s, x) : s \in shorter, x \in S }

Tables == { base \o PadBlock(n) : base \in SeqsUpTo(RowDomain, MaxRows),
                                  n \in {0, MaxPad} }

\* --------------------------------------------------------- sequence helpers
Min(a, b) == IF a < b THEN a ELSE b

\* DataFrame.height
Height(t) == Len(t)

\* DataFrame.head(n)
HeadRows(t, n) == SubSeq(t, 1, Min(n, Len(t)))

RECURSIVE SortedInts(_)
\* .sort(column) on pairwise distinct integer keys, ascending
SortedInts(S) ==
    IF S = {} THEN <<>>
    ELSE LET m == CHOOSE x \in S : \A y \in S : x <= y
         IN  <<m>> \o SortedInts(S \ {m})

RECURSIVE DescOrders(_, _)
\* DataFrame.sort("DELAY_MIN", descending=True) without maintain_order: every
\* arrangement of the rows (by position I) with non-increasing delay.
DescOrders(t, I) ==
    IF I = {} THEN { <<>> }
    ELSE LET top == { i \in I : \A j \in I : t[i].DELAY_MIN >= t[j].DELAY_MIN }
         IN  UNION { { <<t[i]>> \o rest : rest \in DescOrders(t, I \ {i}) }
                     : i \in top }

RECURSIVE SumDelay(_)
\* df["DELAY_MIN"].sum()
SumDelay(t) ==
    IF t = <<>> THEN 0 ELSE Head(t).DELAY_MIN + SumDelay(Tail(t))

\* ------------------------------------------- 2. available lines (l.60-77)
\* lf.select("LINIEN_TEXT").unique()...sort().to_list(); the sorted list is
\* kept as the set of its elements together with SortedLines.
LinesOf(t) == { t[i].LINIEN_TEXT : i \in 1..Len(t) }

\* Lexicographic rank of the line names occurring in the data.
LineRank(l) == CASE l = "IC 1"  -> 1
                 [] l = "IC 5"  -> 2
                 [] l = "IR 15" -> 3

get_available_lines(t) ==
    LET ranks == SortedInts({ LineRank(l) : l \in LinesOf(t) })
    IN  [ i \in 1..Len(ranks) |->
            CHOOSE l \in LinesOf(t) : LineRank(l) = ranks[i] ]

\* all_lines[:2] if len(all_lines) >= 2 else all_lines
DefaultLines(lines) ==
    IF Len(lines) >= 2 THEN SubSeq(lines, 1, 2) ELSE lines

ToSet(s) == { s[i] : i \in 1..Len(s) }

\* ------------------------------------------- 3. data processing (l.103-129)
\* lf.filter(pl.col("LINIEN_TEXT").is_in(selected_lines)).collect()
LineFilter(t, selected) ==
    SelectSeq(t, LAMBDA r : r.LINIEN_TEXT \in selected)

\* Mutant: the delay threshold taken as exclusive (DELAY_MIN > 10).
IsFailureExpr_Strict(r) == r.IS_CANCELLED \/ r.DELAY_MIN > FailureThreshold

\* (pl.col("IS_CANCELLED")) | (pl.col("DELAY_MIN") >= 10)
IsFailureExpr(r) == r.IS_CANCELLED \/ r.DELAY_MIN >= FailureThreshold

\* Mutant: the hour Series shifted by one row (.shift(1), first row filled).
HourSeries_Shifted(t) ==
    [ i \in 1..Len(t) |-> Hour(t[IF i = 1 THEN 1 ELSE i - 1].ANKUNFTSZEIT) ]

\* df["ANKUNFTSZEIT"].dt.hour(): a materialised Series of the frame, attached
\* to the frame by position.
HourSeries(t) == [ i \in 1..Len(t) |-> Hour(t[i].ANKUNFTSZEIT) ]

\* df["BETRIEBSTAG"].dt.month(), likewise by position
MonthSeries(t) == [ i \in 1..Len(t) |-> Month(t[i].BETRIEBSTAG) ]

\* df.with_columns([...]): the cast leaves a Date column as it is; the three
\* derived columns are appended.
WithColumns(t) ==
    LET hours  == HourSeries(t)
        months == MonthSeries(t)
    IN  [ i \in 1..Len(t) |->
            [ BETRIEBSTAG       |-> t[i].BETRIEBSTAG,
              LINIEN_TEXT       |-> t[i].LINIEN_TEXT,
              FAHRT_BEZEICHNER  |-> t[i].FAHRT_BEZEICHNER,
              HALTESTELLEN_NAME |-> t[i].HALTESTELLEN_NAME,
              ANKUNFTSZEIT      |-> t[i].ANKUNFTSZEIT,
              DELAY_MIN         |-> t[i].DELAY_MIN,
              IS_CANCELLED      |-> t[i].IS_CANCELLED,
              IS_FAILURE        |-> IsFailureExpr(t[i]),
              HOUR              |-> hours[i],
              MONTH             |-> months[i] ] ]

\* Mutant: weekday() taken as 0-based (Monday = 0), so that "< 6" is meant to
\* drop Sunday only and Saturday (ISO 6) is kept.
NeutralKeep_ZeroBased(r) ==
    /\ r.BETRIEBSTAG \notin CONSTRUCTION_DAYS
    /\ Weekday(r.BETRIEBSTAG) - 1 < FirstWeekendDay

\* (~pl.col("BETRIEBSTAG").is_in(CONSTRUCTION_DAYS)) &
\* (pl.col("BETRIEBSTAG").dt.weekday() < 6)
NeutralKeep(r) ==
    /\ r.BETRIEBSTAG \notin CONSTRUCTION_DAYS
    /\ Weekday(r.BETRIEBSTAG) < FirstWeekendDay

Neutralized(t) == SelectSeq(t, NeutralKeep)

\* The frame handed to the dashboard: line filter, derivation, neutralization.
ProcessedFrame(t, selected, neutral) ==
    LET derived == WithColumns(LineFilter(t, selected))
    IN  IF neutral THEN Neutralized(derived) ELSE derived

\* ------------------------------------------------ 4. dashboard (l.131-187)
\* df.filter(pl.col("IS_FAILURE")).height
FailureCount(t) == Len(SelectSeq(t, LAMBDA r : r.IS_FAILURE))

\* A float is kept as the exact fraction num/den (den > 0).
Frac(n, d) == [ num |-> n, den |-> d ]

\* Mutant: floor division (failures // total_trains * 100).
FailRate_FloorDiv(fails, total) ==
    IF total > 0 THEN Frac((fails \div total) * 100, 1) ELSE Frac(0, 1)

\* Mutant: the quotient inverted (total_trains / failures * 100).
FailRate_Inverted(fails, total) ==
    IF total > 0 /\ fails > 0 THEN Frac(total * 100, fails) ELSE Frac(0, 1)

\* (failures / total_trains * 100) if total_trains > 0 else 0
FailRate(fails, total) ==
    IF total > 0 THEN Frac(fails * 100, total) ELSE Frac(0, 1)

\* (df["DELAY_MIN"].sum() / 60) * 600 * 0.4
EstHoursLost(t) == Frac(SumDelay(t) * 600 * 4, 60 * 10)

Kpis(t) ==
    [ total_trains   |-> Height(t),
      failures       |-> FailureCount(t),
      fail_rate      |-> FailRate(FailureCount(t), Height(t)),
      est_hours_lost |-> EstHoursLost(t) ]

\* Mutant: the group size counted over the failure rows only.
GroupLen_FailuresOnly(t, column, value) ==
    Len(SelectSeq(t, LAMBDA r : r[column] = value /\ r.IS_FAILURE))

\* pl.len() of the group of the rows whose group_by column holds value
GroupLen(t, column, value) ==
    Len(SelectSeq(t, LAMBDA r : r[column] = value))

\* pl.col("IS_FAILURE").sum() of one group
GroupFailures(t, column, value) ==
    Len(SelectSeq(t, LAMBDA r : r[column] = value /\ r.IS_FAILURE))

\* df.group_by("BETRIEBSTAG").agg(...).with_columns(RATE).sort("BETRIEBSTAG")
Daily(t) ==
    LET days  == { t[i].BETRIEBSTAG : i \in 1..Len(t) }
        order == SortedInts({ DaysFromCivil(d) : d \in days })
    IN  [ k \in 1..Len(order) |->
            LET d == CHOOSE x \in days : DaysFromCivil(x) = order[k]
                n == GroupLen(t, "BETRIEBSTAG", d)
                f == GroupFailures(t, "BETRIEBSTAG", d)
            IN  [ BETRIEBSTAG |-> d, TOTAL |-> n, FAILURES |-> f,
                  RATE |-> Frac(f * 100, n) ] ]

\* df.group_by("HOUR").agg(...).with_columns(RATE).sort("HOUR")
HeatmapData(t) ==
    LET order == SortedInts({ t[i].HOUR : i \in 1..Len(t) })
    IN  [ k \in 1..Len(order) |->
            LET n == GroupLen(t, "HOUR", order[k])
                f == GroupFailures(t, "HOUR", order[k])
            IN  [ HOUR |-> order[k], TOTAL |-> n, FAILURES |-> f,
                  RATE |-> Frac(f * 100, n) ] ]

\* Mutant: the threshold taken as inclusive (DELAY_MIN >= 30).
WorstCandidates_Inclusive(t) ==
    SelectSeq(t, LAMBDA r : r.DELAY_MIN >= WorstThreshold)

\* df.filter(pl.col("DELAY_MIN") > 30)
WorstCandidates(t) == SelectSeq(t, LAMBDA r : r.DELAY_MIN > WorstThreshold)

\* .select([...]) of the five listed columns
WorstProjection(t) ==
    [ i \in 1..Len(t) |->
        [ BETRIEBSTAG       |-> t[i].BETRIEBSTAG,
          LINIEN_TEXT       |-> t[i].LINIEN_TEXT,
          FAHRT_BEZEICHNER  |-> t[i].FAHRT_BEZEICHNER,
          HALTESTELLEN_NAME |-> t[i].HALTESTELLEN_NAME,
          DELAY_MIN         |-> t[i].DELAY_MIN ] ]

\* filter, select, sort descending, head(10): the lists the sort may yield
WorstTrains(t) ==
    LET cand == WorstProjection(WorstCandidates(t))
    IN  { HeadRows(s, WorstLimit) : s \in DescOrders(cand, 1..Len(cand)) }

\* =========================================================== state machine
VARIABLES
    dataset,         \* content of the parquet file hosted in the hub repository
    has_token,       \* whether st.secrets holds HF_TOKEN
    cache_resource,  \* memo of get_local_filepath (st.cache_resource)
    cache_data,      \* memo of get_available_lines (st.cache_data)
    downloads,       \* number of hf_hub_download calls made by the process
    ms_state,        \* session value of the multiselect
    cb_state,        \* session value of the checkbox
    widgets,         \* widgets instantiated by the current pass
    pc,              \* position of the current pass in the script
    halt,            \* which st.stop() ended the pass, "" if none
    prev_no_lines,   \* history: the previous pass stopped at the selection guard
    requested,       \* the current pass called hf_hub_download
    file_path, all_lines, selected_lines, neutralize, df,
    messages,        \* st.error / st.warning / st.success shown by the pass
    rendered,        \* dashboard elements drawn by the pass
    kpis, daily, heatmap_data, worst_trains

vars == << dataset, has_token, cache_resource, cache_data, downloads,
           ms_state, cb_state, widgets, pc, halt, prev_no_lines, requested,
           file_path, all_lines, selected_lines, neutralize, df,
           messages, rendered, kpis, daily, heatmap_data, worst_trains >>

hub       == << dataset, has_token >>
env       == << dataset, has_token, prev_no_lines >>
session   == << ms_state, cb_state >>
outputs   == << kpis, daily, heatmap_data, worst_trains, rendered >>

Unset     == [ set |-> FALSE, value |-> {} ]
NoEntry   == [ hit |-> FALSE, value |-> <<>> ]
NoKpis    == Kpis(<<>>)

\* What a pass starts from: nothing read, nothing drawn.
FreshPass ==
    /\ pc' = "download"
    /\ halt' = ""
    /\ prev_no_lines' = (halt = "no_lines")
    /\ requested' = FALSE
    /\ widgets' = {}
    /\ file_path' = None
    /\ all_lines' = <<>>
    /\ selected_lines' = {}
    /\ neutralize' = FALSE
    /\ df' = <<>>
    /\ messages' = {}
    /\ rendered' = {}
    /\ kpis' = NoKpis
    /\ daily' = <<>>
    /\ heatmap_data' = <<>>
    /\ worst_trains' = <<>>

Init ==
    /\ dataset \in Tables
    /\ has_token \in BOOLEAN
    /\ cache_resource = CacheEmpty
    /\ cache_data = NoEntry
    /\ downloads = 0
    /\ ms_state = Unset
    /\ cb_state = FALSE
    /\ pc = "download"
    /\ halt = ""
    /\ prev_no_lines = FALSE
    /\ requested = FALSE
    /\ widgets = {}
    /\ file_path = None
    /\ all_lines = <<>>
    /\ selected_lines = {}
    /\ neutralize = FALSE
    /\ df = <<>>
    /\ messages = {}
    /\ rendered = {}
    /\ kpis = NoKpis
    /\ daily = <<>>
    /\ heatmap_data = <<>>
    /\ worst_trains = <<>>

PassEnded == pc \in { "done", "halted" }

\* ------------------------------------------------------ user interactions
\* A widget the last pass did not instantiate may have lost its session value.
StaleMultiselect(keep) ==
    IF "multiselect" \in widgets \/ keep THEN ms_state ELSE Unset

StaleCheckbox(keep) ==
    IF "checkbox" \in widgets \/ keep THEN cb_state ELSE FALSE

\* The user reruns the script (or reloads the page) without touching a widget.
Rerun ==
    /\ PassEnded
    /\ \E keep \in BOOLEAN :
          /\ ms_state' = StaleMultiselect(keep)
          /\ cb_state' = StaleCheckbox(keep)
    /\ FreshPass
    /\ UNCHANGED << hub, cache_resource, cache_data, downloads >>

\* The user changes the selection of the multiselect (l.84-88).
ChangeLines ==
    /\ PassEnded
    /\ "multiselect" \in widgets
    /\ \E S \in SUBSET ToSet(all_lines), keep \in BOOLEAN :
          /\ S # ms_state.value
          /\ ms_state' = [ set |-> TRUE, value |-> S ]
          /\ cb_state' = StaleCheckbox(keep)
    /\ FreshPass
    /\ UNCHANGED << hub, cache_resource, cache_data, downloads >>

\* The user ticks or unticks "Neutralize Incidents" (l.97-101).
ToggleNeutralize ==
    /\ PassEnded
    /\ "checkbox" \in widgets
    /\ cb_state' = ~cb_state
    /\ ms_state' = ms_state
    /\ FreshPass
    /\ UNCHANGED << hub, cache_resource, cache_data, downloads >>

\* --------------------------------------- 1. data downloader (l.25-55)
TokenWarning == IF has_token THEN {} ELSE { "warning: HF_TOKEN not found" }

\* Cache miss, hf_hub_download returns the local path.
DownloadOk ==
    /\ pc = "download"
    /\ cache_resource = CacheEmpty
    /\ downloads' = downloads + 1
    /\ requested' = TRUE
    /\ cache_resource' = LocalPath
    /\ file_path' = LocalPath
    /\ messages' = messages \cup TokenWarning
    /\ pc' = "scan"
    /\ UNCHANGED << env, session, cache_data, widgets, halt, all_lines,
                    selected_lines, neutralize, df, outputs >>

\* Cache miss, hf_hub_download raises: the function reports the error and
\* returns None, which st.cache_resource stores like any return value; the
\* script then stops the pass (l.51-52).
DownloadFail ==
    /\ pc = "download"
    /\ cache_resource = CacheEmpty
    /\ downloads' = downloads + 1
    /\ requested' = TRUE
    /\ cache_resource' = None
    /\ file_path' = None
    /\ messages' = messages \cup TokenWarning \cup { "error: Download failed" }
    /\ pc' = "halted"
    /\ halt' = "download"
    /\ UNCHANGED << env, session, cache_data, widgets, all_lines,
                    selected_lines, neutralize, df, outputs >>

\* Mutant: get_local_filepath without memoisation; a later pass downloads
\* again.
CacheHit_Redownload ==
    /\ pc = "download"
    /\ cache_resource # CacheEmpty
    /\ downloads' = downloads + 1
    /\ requested' = TRUE
    /\ cache_resource' = LocalPath
    /\ file_path' = LocalPath
    /\ messages' = messages \cup TokenWarning
    /\ pc' = "scan"
    /\ UNCHANGED << env, session, cache_data, widgets, halt, all_lines,
                    selected_lines, neutralize, df, outputs >>

\* Cache hit: the stored return value is handed back and the messages the
\* function showed when it ran are replayed; the body does not run.
CacheHit ==
    /\ pc = "download"
    /\ cache_resource # CacheEmpty
    /\ file_path' = cache_resource
    /\ messages' = messages \cup TokenWarning \cup
                     (IF cache_resource = None
                      THEN { "error: Download failed" } ELSE {})
    /\ IF cache_resource = None
       THEN pc' = "halted" /\ halt' = "download"
       ELSE pc' = "scan" /\ halt' = halt
    /\ UNCHANGED << env, session, cache_resource, cache_data, downloads,
                    requested, widgets, all_lines, selected_lines,
                    neutralize, df, outputs >>

\* --------------------------------------- 2. auto-detect lines (l.57-80)
ScanLines ==
    /\ pc = "scan"
    /\ LET lines == IF cache_data.hit THEN cache_data.value
                    ELSE get_available_lines(dataset)
       IN  /\ all_lines' = lines
           /\ cache_data' = [ hit |-> TRUE, value |-> lines ]
    /\ pc' = "select"
    /\ UNCHANGED << env, session, cache_resource, downloads, requested,
                    widgets, halt, file_path, selected_lines, neutralize,
                    df, messages, outputs >>

\* Reading the file raises inside get_available_lines (nothing is cached).
ScanLinesFail ==
    /\ pc = "scan"
    /\ ~cache_data.hit
    /\ messages' = messages \cup { "error: Could not read lines" }
    /\ pc' = "halted"
    /\ halt' = "scan"
    /\ UNCHANGED << env, session, cache_resource, cache_data, downloads,
                    requested, widgets, file_path, all_lines,
                    selected_lines, neutralize, df, outputs >>

\* --------------------------------------- filter 1: lines (l.82-92)
\* Mutant: the empty-selection guard (l.90-92) left out.
SelectLines_NoGuard ==
    /\ pc = "select"
    /\ LET chosen == IF ms_state.set THEN ms_state.value
                     ELSE ToSet(DefaultLines(all_lines))
       IN  /\ selected_lines' = chosen
           /\ ms_state' = [ set |-> TRUE, value |-> chosen ]
           /\ widgets' = widgets \cup { "multiselect" }
    /\ pc' = "process"
    /\ UNCHANGED << env, cb_state, cache_resource, cache_data, downloads,
                    requested, halt, file_path, all_lines, neutralize, df,
                    messages, outputs >>

SelectLines ==
    /\ pc = "select"
    /\ LET chosen == IF ms_state.set THEN ms_state.value
                     ELSE ToSet(DefaultLines(all_lines))
       IN  /\ selected_lines' = chosen
           /\ ms_state' = [ set |-> TRUE, value |-> chosen ]
           /\ widgets' = widgets \cup { "multiselect" }
           /\ IF chosen = {}
              THEN /\ messages' = messages \cup
                                    { "warning: Please select at least one line" }
                   /\ pc' = "halted"
                   /\ halt' = "no_lines"
              ELSE /\ messages' = messages
                   /\ pc' = "process"
                   /\ halt' = halt
    /\ UNCHANGED << env, cb_state, cache_resource, cache_data, downloads,
                    requested, file_path, all_lines, neutralize, df,
                    outputs >>

\* ------------- filter 2 and data processing (l.94-129), collect succeeds
ProcessData ==
    /\ pc = "process"
    /\ widgets' = widgets \cup { "checkbox" }
    /\ neutralize' = cb_state
    /\ df' = ProcessedFrame(dataset, selected_lines, cb_state)
    /\ messages' = messages \cup
                     (IF cb_state THEN { "success: Data Neutralized" } ELSE {})
    /\ pc' = "dashboard"
    /\ UNCHANGED << env, session, cache_resource, cache_data, downloads,
                    requested, halt, file_path, all_lines, selected_lines,
                    outputs >>

\* query.collect() raises (l.111-113)
CollectFail ==
    /\ pc = "process"
    /\ widgets' = widgets \cup { "checkbox" }
    /\ neutralize' = cb_state
    /\ messages' = messages \cup { "error: Error processing data" }
    /\ pc' = "halted"
    /\ halt' = "collect"
    /\ UNCHANGED << env, session, cache_resource, cache_data, downloads,
                    requested, file_path, all_lines, selected_lines, df,
                    outputs >>

\* --------------------------------------- 4. dashboard (l.131-187)
RenderDashboard ==
    /\ pc = "dashboard"
    /\ kpis' = Kpis(df)
    /\ daily' = Daily(df)
    /\ heatmap_data' = HeatmapData(df)
    /\ \E worst \in WorstTrains(df) : worst_trains' = worst
    /\ rendered' = { "kpis", "line_chart", "bar_chart", "table" }
    /\ pc' = "done"
    /\ UNCHANGED << env, session, cache_resource, cache_data, downloads,
                    requested, widgets, halt, file_path, all_lines,
                    selected_lines, neutralize, df, messages >>

Next ==
    \/ Rerun
    \/ ChangeLines
    \/ ToggleNeutralize
    \/ DownloadOk
    \/ DownloadFail
    \/ CacheHit
    \/ ScanLines
    \/ ScanLinesFail
    \/ SelectLines
    \/ ProcessData
    \/ CollectFail
    \/ RenderDashboard

Spec == Init /\ [][Next]_vars


\* ================================================================ properties
Shown == pc \in { "dashboard", "done" }     \* df has been computed
Done  == pc = "done"                        \* the dashboard has been drawn

\* C1: every row of the filtered table has IS_FAILURE true exactly when it is
\* cancelled or its delay is at least 10 minutes; a non-cancelled row with
\* delay 10 is a failure, one with delay 9 or less is not.
C1_FailureFlag ==
    Shown =>
      \A i \in 1..Len(df) :
        /\ df[i].IS_FAILURE <=> (df[i].IS_CANCELLED \/ df[i].DELAY_MIN >= 10)
        /\ (~df[i].IS_CANCELLED /\ df[i].DELAY_MIN = 10) => df[i].IS_FAILURE
        /\ (~df[i].IS_CANCELLED /\ df[i].DELAY_MIN <= 9) => ~df[i].IS_FAILURE

C1_Witness ==
    /\ Done
    /\ \E i, j \in 1..Len(df) :
          /\ ~df[i].IS_CANCELLED /\ df[i].DELAY_MIN = 10 /\ df[i].IS_FAILURE
          /\ ~df[j].IS_CANCELLED /\ df[j].DELAY_MIN = 9 /\ ~df[j].IS_FAILURE

IsZero(q) == q.num = 0

\* C2 as stated: the failure rate is 0 exactly when the table is empty.
C2_ZeroIffEmpty ==
    Done => (IsZero(kpis.fail_rate) <=> kpis.total_trains = 0)

\* C2 (amended): the failure rate is 0 whenever the table is empty, and for a
\* non-empty table it is 0 exactly when no row is a failure.
C2_ZeroIffNoFailure ==
    Done =>
      /\ kpis.total_trains = 0 => IsZero(kpis.fail_rate)
      /\ kpis.total_trains > 0 =>
           (IsZero(kpis.fail_rate) <=> kpis.failures = 0)

C2_Witness ==
    /\ Done
    /\ selected_lines # {}
    /\ kpis.total_trains = 0
    /\ IsZero(kpis.fail_rate)

\* C3: for a non-empty filtered table, failures <= total and the failure rate
\* lies in [0, 100], whatever the selection and the toggle.
C3_RateInRange ==
    (Done /\ kpis.total_trains > 0) =>
      /\ kpis.failures <= kpis.total_trains
      /\ kpis.fail_rate.den > 0
      /\ 0 <= kpis.fail_rate.num
      /\ kpis.fail_rate.num <= 100 * kpis.fail_rate.den

C3_Witness ==
    /\ Done
    /\ neutralize
    /\ kpis.failures > 0
    /\ kpis.failures < kpis.total_trains
    /\ kpis.fail_rate.num * 2 = 100 * kpis.fail_rate.den

\* Saturday or Sunday by Zeller's congruence (0 = Saturday, 1 = Sunday).
IsSatOrSun(dt) ==
    LET m == IF dt.month <= 2 THEN dt.month + 12 ELSE dt.month
        y == IF dt.month <= 2 THEN dt.year - 1 ELSE dt.year
        K == y % 100
        J == y \div 100
        h == (dt.day + (13 * (m + 1)) \div 5 + K + K \div 4 + J \div 4 + 5 * J) % 7
    IN  h \in { 0, 1 }

NotNeutralized == ProcessedFrame(dataset, selected_lines, FALSE)

\* C4: with neutralization enabled the table is exactly the rows of the table
\* produced without it (same source, same selection) whose operating date is
\* neither blacklisted nor a Saturday or Sunday; so it is a sub-table, and no
\* row dated 2025-01-18 is in it.
C4_NeutralizedRows ==
    (Shown /\ neutralize) =>
      /\ df = SelectSeq(NotNeutralized,
                        LAMBDA r : /\ r.BETRIEBSTAG \notin CONSTRUCTION_DAYS
                                   /\ ~IsSatOrSun(r.BETRIEBSTAG))
      /\ ToSet(df) \subseteq ToSet(NotNeutralized)
      /\ \A i \in 1..Len(df) : df[i].BETRIEBSTAG # Date(2025, 1, 18)

C4_Witness ==
    /\ Done
    /\ neutralize
    /\ df # <<>>
    /\ \E i, j \in 1..Len(NotNeutralized) :
          /\ NotNeutralized[i].BETRIEBSTAG = Date(2025, 1, 18)
          /\ NotNeutralized[i].LINIEN_TEXT \in selected_lines
          /\ NotNeutralized[j].BETRIEBSTAG = Date(2025, 1, 4)

Count(t, x) == Cardinality({ i \in 1..Len(t) : t[i] = x })

Qualifying == WorstProjection(SelectSeq(df, LAMBDA r : r.DELAY_MIN > 30))

\* C5: the worst-offenders list holds only rows with delay > 30, in
\* descending order of delay, has length min(10, number of rows with
\* delay > 30), and no row left out has a larger delay than a listed one.
C5_WorstOffenders ==
    Done =>
      /\ \A i \in 1..Len(worst_trains) : worst_trains[i].DELAY_MIN > 30
      /\ \A i, j \in 1..Len(worst_trains) :
            i < j => worst_trains[i].DELAY_MIN >= worst_trains[j].DELAY_MIN
      /\ Len(worst_trains) = Min(10, Len(Qualifying))
      /\ \A i \in 1..Len(worst_trains) :
            Count(worst_trains, worst_trains[i]) <= Count(Qualifying, worst_trains[i])
      /\ \A q \in 1..Len(Qualifying), i \in 1..Len(worst_trains) :
            Count(worst_trains, Qualifying[q]) < Count(Qualifying, Qualifying[q])
              => worst_trains[i].DELAY_MIN >= Qualifying[q].DELAY_MIN

C5_Witness ==
    /\ Done
    /\ Len(Qualifying) > 10
    /\ Len(worst_trains) = 10
    /\ \E i \in 1..Len(df) : df[i].DELAY_MIN = 30

RECURSIVE SumTotal(_)
SumTotal(groups) ==
    IF groups = <<>> THEN 0 ELSE Head(groups).TOTAL + SumTotal(Tail(groups))

\* C6: the TOTAL counts of the daily series add up to the number of rows of
\* the filtered table, and so do those of the hourly series.
C6_GroupCounts ==
    Done =>
      /\ SumTotal(daily) = Len(df)
      /\ SumTotal(heatmap_data) = Len(df)

C6_Witness ==
    /\ Done
    /\ Len(daily) >= 2
    /\ Len(heatmap_data) >= 2
    /\ \E k \in 1..Len(daily) : daily[k].TOTAL >= 2
    /\ \E k \in 1..Len(heatmap_data) :
          heatmap_data[k].TOTAL >= 2 /\ heatmap_data[k].FAILURES = 1

NoLinesWarning == "warning: Please select at least one line"

\* C7: a pass with an empty selection shows the warning and stops before the
\* filter, derivation, metrics and presentation stages (nothing is rendered);
\* no pass reaches those stages with an empty selection, and a pass with a
\* non-empty selection is never stopped by this guard, also right after a pass
\* that was.
C7_EmptySelectionHalts ==
    /\ halt = "no_lines" =>
         /\ pc = "halted"
         /\ selected_lines = {}
         /\ NoLinesWarning \in messages
         /\ "checkbox" \notin widgets
         /\ df = <<>>
         /\ rendered = {}
         /\ kpis = NoKpis /\ daily = <<>> /\ heatmap_data = <<>>
         /\ worst_trains = <<>>
    /\ pc \in { "process", "dashboard", "done" } =>
         /\ selected_lines # {}
         /\ halt = ""
         /\ NoLinesWarning \notin messages
    /\ (pc = "halted" /\ "multiselect" \in widgets /\ selected_lines = {})
         => halt = "no_lines"

C7_Witness ==
    /\ Done
    /\ prev_no_lines
    /\ selected_lines # {}
    /\ rendered = { "kpis", "line_chart", "bar_chart", "table" }

\* C8 as stated: a pass is halted for a failed download only if the download
\* failed in that very pass; it then shows the error and renders nothing.
C8_FailureScopedToPass ==
    halt = "download" =>
      /\ requested
      /\ "error: Download failed" \in messages
      /\ df = <<>>
      /\ rendered = {}

DerivedThenFiltered ==
    SelectSeq(WithColumns(dataset),
              LAMBDA r : /\ r.LINIEN_TEXT \in selected_lines
                         /\ neutralize => NeutralKeep(r))

FilteredThenDerived ==
    WithColumns(SelectSeq(dataset,
                          LAMBDA r : /\ r.LINIEN_TEXT \in selected_lines
                                     /\ neutralize => NeutralKeep(r)))

\* C9: the table the code builds (line filter, derivation, neutralization)
\* equals the table obtained by deriving the columns on the whole source and
\* filtering afterwards, and the one obtained by applying all row filters
\* first and deriving afterwards.
C9_DeriveCommutes ==
    Shown =>
      /\ df = DerivedThenFiltered
      /\ df = FilteredThenDerived

C9_Witness ==
    /\ Done
    /\ neutralize
    /\ Len(df) >= 2
    /\ Len(df) < Len(NotNeutralized)
    /\ Len(NotNeutralized) < Len(dataset)
    /\ \E i, j \in 1..Len(df) : df[i].HOUR # df[j].HOUR

\* C10: once a pass has obtained the local path, the cached path never
\* changes, no later step issues a download request, and every later pass
\* reads that same path.
C10_DownloadOnce ==
    [][ cache_resource = LocalPath =>
          /\ cache_resource' = LocalPath
          /\ downloads' = downloads
          /\ requested' => requested
          /\ pc' \notin { "download", "halted" } => file_path' = LocalPath
          /\ halt' # "download" ]_vars

C10_Witness ==
    /\ Done
    /\ ~requested
    /\ downloads = 1
    /\ file_path = LocalPath
    /\ neutralize
    /\ selected_lines # ToSet(DefaultLines(all_lines))

====
